---- MODULE Spec2Model ----
(***************************************************************************)
(* Model of the Reformulator engine:                                       *)
(*   - reformulate_rows (src/reformulator/core.py): a thread pool that     *)
(*     runs one task per record and an orchestrator loop that applies the  *)
(*     results by index and renders progress;                              *)
(*   - call_openai (src/reformulator/openai_client.py): one invocation     *)
(*     with retry/backoff and the process-wide USE_RESPONSE_FORMAT flag.   *)
(***************************************************************************)
EXTENDS Integers, Sequences, FiniteSets, TLC

(* ------------------------------------------------------------------ *)
(* Bounds                                                              *)
(* ------------------------------------------------------------------ *)
MaxRows == 3
MaxWorkers == 2
MaxTimeouts == 1

(* ------------------------------------------------------------------ *)
(* Texts: a text is a sequence of characters                           *)
(* ------------------------------------------------------------------ *)
Whitespace == {" "}

RECURSIVE LStrip(_)
LStrip(t) ==
    IF t = <<>> THEN <<>>
    ELSE IF Head(t) \in Whitespace THEN LStrip(Tail(t)) ELSE t

RECURSIVE RStrip(_)
RStrip(t) ==
    IF t = <<>> THEN <<>>
    ELSE IF t[Len(t)] \in Whitespace THEN RStrip(SubSeq(t, 1, Len(t) - 1)) ELSE t

\* str.strip()
Strip(t) == RStrip(LStrip(t))

IsBlank_OnlyEmpty(t) == t = <<>>

\* `not text.strip()`
IsBlank(t) == Strip(t) = <<>>

Max(a, b) == IF a >= b THEN a ELSE b
Min(a, b) == IF a <= b THEN a ELSE b

\* field values a record may hold in the target column
Texts == { <<>>, <<" ">>, <<"a", " ">> }

TitleOf == <<"T">>

\* a record either has the target column or lacks it; "title" is another field
RowChoices ==
    { [f \in {"col", "title"} |-> IF f = "col" THEN t ELSE TitleOf] : t \in Texts }
    \cup { [f \in {"title"} |-> TitleOf] }

\* dict.get(key, default)
Get(row, key, default) == IF key \in DOMAIN row THEN row[key] ELSE default

SetItem_ReplacesRecord(row, key, value) == [f \in {key} |-> value]

SetItem_OnlyExistingKey(row, key, value) ==
    [f \in DOMAIN row |-> IF f = key THEN value ELSE row[f]]

\* row[key] = value
SetItem(row, key, value) ==
    [f \in (DOMAIN row) \cup {key} |-> IF f = key THEN value ELSE row[f]]

(* ------------------------------------------------------------------ *)
(* The batch: reformulate_rows                                         *)
(* ------------------------------------------------------------------ *)
VARIABLES
    rows,        \* the batch, index -> record (mutated in place)
    original,    \* the batch as handed to reformulate_rows
    column,      \* name of the target field
    dry_run,
    workers,
    client,      \* "None" or "client"
    invoker,     \* how core's call of call_openai binds: "keyword_mismatch" | "bound"
    pc,          \* position of the orchestrator thread
    nextIdx,     \* next index of the submission loop
    fstate,      \* index -> "none" | "queued" | "running" | "finished"
    ftext,       \* index -> text captured at submission
    foutcome,    \* index -> outcome of the task (once finished)
    pending,     \* the orchestrator's pending set
    done,        \* the done set still being iterated
    completed,
    renders,     \* sequence of rendered progress lines
    timeouts,    \* number of waits that elapsed with no completion
    applied,     \* index -> number of times a result was written to rows[index]
    invoked,     \* index -> sequence of texts handed to the Rewrite Invoker
    startOrder,  \* sequence of indices in the order their tasks started
    exc          \* the exception propagating out of reformulate_rows, or "none"

bvars == <<rows, original, column, dry_run, workers, client, invoker, pc, nextIdx,
           fstate, ftext, foutcome, pending, done, completed, renders, timeouts,
           applied, invoked, startOrder, exc>>

total == Cardinality(DOMAIN rows)
Indices == DOMAIN rows

\* outcome of a task: the (index, text) pair it returns or the exception it
\* raises, with the texts it handed to the Rewrite Invoker on the way
NoOutcome == [kind |-> "none"]
Ok_FirstIndex(index, text, sent) == [kind |-> "ok", index |-> 0, text |-> text, sent |-> sent]
Ok(index, text, sent) == [kind |-> "ok", index |-> index, text |-> text, sent |-> sent]
Err(cls, sent) == [kind |-> "err", exc |-> cls, sent |-> sent]

\* the value the Rewrite Invoker returns for a text when its call succeeds
InvokerResult(text) == Strip(text) \o <<"!">>

\* core.py:47 calls call_openai(client, model, text, max_retries=...); the
\* package's call_openai declares a required keyword-only target_language.
CoreCallKeywords == {"max_retries"}
CallOpenaiRequiredKeywords == {"target_language"}

InvokerOutcomes_SendsStripped(index, text) ==
    IF invoker = "keyword_mismatch" /\ ~(CallOpenaiRequiredKeywords \subseteq CoreCallKeywords)
    THEN { Err("TypeError", <<text>>) }
    ELSE { Ok(index, InvokerResult(text), <<Strip(text)>>), Err("RuntimeError", <<Strip(text)>>) }

\* outcomes of evaluating call_openai(...) from process
InvokerOutcomes(index, text) ==
    IF invoker = "keyword_mismatch" /\ ~(CallOpenaiRequiredKeywords \subseteq CoreCallKeywords)
    THEN { Err("TypeError", <<text>>) }
    ELSE { Ok(index, InvokerResult(text), <<text>>), Err("RuntimeError", <<text>>) }

process_IgnoresDryRun(index, text) ==
    IF IsBlank(text) THEN { Ok(index, text, <<>>) }
    ELSE IF client = "None" THEN { Err("RuntimeError", <<>>) }
    ELSE InvokerOutcomes(index, text)

\* process(index, text)
process(index, text) ==
    IF dry_run \/ IsBlank(text) THEN { Ok(index, text, <<>>) }
    ELSE IF client = "None" THEN { Err("RuntimeError", <<>>) }
    ELSE InvokerOutcomes(index, text)

MaxWorkersArg_OnePerRecord(w) == Max(1, total)

\* max_workers=max(1, workers)
MaxWorkersArg(w) == Max(1, w)

\* percent with two decimals, in hundredths of a percent
Percent_ZeroWhenEmpty(current, maximum) ==
    IF maximum <= 0 THEN 0
    ELSE Max(0, Min(10000, (2 * current * 10000 + maximum) \div (2 * maximum)))

Percent_Truncated(current, maximum) ==
    IF maximum <= 0 THEN 10000
    ELSE Max(0, Min(10000, (current * 10000) \div maximum))

\* core.py:34-37: ratio * 100 formatted with `6.2f`, which rounds to the
\* nearest hundredth; an empty batch shows 100%
Percent(current, maximum) ==
    IF maximum <= 0 THEN 10000
    ELSE Max(0, Min(10000, (2 * current * 10000 + maximum) \div (2 * maximum)))

render_progress_NoCount(current, maximum) ==
    [current |-> 0, maximum |-> maximum, percent |-> Percent(0, maximum)]

\* render_progress(current, maximum)
render_progress(current, maximum) ==
    [current |-> current, maximum |-> maximum, percent |-> Percent(current, maximum)]

WaitSplit_NeverDone(pend, fs) == <<{}, pend>>

WaitSplit_DropsPending(pend, fs) ==
    LET d == { i \in pend : fs[i] = "finished" } IN <<d, {}>>

\* wait(pending, timeout, FIRST_COMPLETED): <<done, not_done>>
WaitSplit(pend, fs) ==
    LET d == { i \in pend : fs[i] = "finished" } IN <<d, pend \ d>>

BatchInit ==
    /\ \E n \in 0..MaxRows : rows \in [0..(n - 1) -> RowChoices]
    /\ original = rows
    /\ column = "col"
    /\ dry_run \in BOOLEAN
    /\ workers \in 0..MaxWorkers
    /\ client \in {"None", "client"}
    /\ invoker \in {"keyword_mismatch", "bound"}
    /\ (client = "None" => invoker = "keyword_mismatch")
    /\ pc = "start"
    /\ nextIdx = 0
    /\ fstate = [i \in Indices |-> "none"]
    /\ ftext = [i \in Indices |-> <<>>]
    /\ foutcome = [i \in Indices |-> NoOutcome]
    /\ pending = {}
    /\ done = {}
    /\ completed = 0
    /\ renders = <<>>
    /\ timeouts = 0
    /\ applied = [i \in Indices |-> 0]
    /\ invoked = [i \in Indices |-> <<>>]
    /\ startOrder = <<>>
    /\ exc = "none"

\* core.py:50-52: the zero-record batch renders once and returns
EmptyBatch ==
    /\ pc = "start"
    /\ total = 0
    /\ renders' = Append(renders, render_progress(completed, total))
    /\ pc' = "returned"
    /\ UNCHANGED <<rows, original, column, dry_run, workers, client, invoker, nextIdx,
                   fstate, ftext, foutcome, pending, done, completed, timeouts,
                   applied, invoked, startOrder, exc>>

\* core.py:54: the pool is created
OpenPool ==
    /\ pc = "start"
    /\ total # 0
    /\ pc' = "submit"
    /\ UNCHANGED <<rows, original, column, dry_run, workers, client, invoker, nextIdx,
                   fstate, ftext, foutcome, pending, done, completed, renders, timeouts,
                   applied, invoked, startOrder, exc>>

\* core.py:56-58: one iteration of the submission loop
Submit ==
    /\ pc = "submit"
    /\ nextIdx < total
    /\ ftext' = [ftext EXCEPT ![nextIdx] = Get(rows[nextIdx], column, <<>>)]
    /\ fstate' = [fstate EXCEPT ![nextIdx] = "queued"]
    /\ nextIdx' = nextIdx + 1
    /\ UNCHANGED <<rows, original, column, dry_run, workers, client, invoker, pc,
                   foutcome, pending, done, completed, renders, timeouts,
                   applied, invoked, startOrder, exc>>

\* core.py:60-61: pending = set(futures), first render
FirstRender ==
    /\ pc = "submit"
    /\ nextIdx = total
    /\ pending' = Indices
    /\ renders' = Append(renders, render_progress(completed, total))
    /\ pc' = "loop"
    /\ UNCHANGED <<rows, original, column, dry_run, workers, client, invoker, nextIdx,
                   fstate, ftext, foutcome, done, completed, timeouts,
                   applied, invoked, startOrder, exc>>

Running == { i \in Indices : fstate[i] = "running" }
Queued == { i \in Indices : fstate[i] = "queued" }

IsNextWorkItem_AnyQueued(i, queued) == i \in queued

\* core.py:56-58: the work queue of the pool is FIFO and items are put in
\* record order: the next item taken is the oldest one queued
IsNextWorkItem(i, queued) == i \in queued /\ \A j \in queued : i <= j

\* a pool worker takes the oldest queued work item (FIFO work queue)
TaskStart(i) ==
    /\ fstate[i] = "queued"
    /\ IsNextWorkItem(i, Queued)
    /\ Cardinality(Running) < MaxWorkersArg(workers)
    /\ fstate' = [fstate EXCEPT ![i] = "running"]
    /\ startOrder' = Append(startOrder, i)
    /\ UNCHANGED <<rows, original, column, dry_run, workers, client, invoker, pc, nextIdx,
                   ftext, foutcome, pending, done, completed, renders, timeouts,
                   applied, invoked, exc>>

\* core.py:42-48: the worker runs process(index, text) and sets the future
TaskFinish(i) ==
    /\ fstate[i] = "running"
    /\ \E o \in process(i, ftext[i]) :
          /\ foutcome' = [foutcome EXCEPT ![i] = o]
          /\ invoked' = [invoked EXCEPT ![i] = @ \o o.sent]
    /\ fstate' = [fstate EXCEPT ![i] = "finished"]
    /\ UNCHANGED <<rows, original, column, dry_run, workers, client, invoker, pc, nextIdx,
                   ftext, pending, done, completed, renders, timeouts,
                   applied, startOrder, exc>>

\* core.py:63-67: the bounded wait elapses with nothing done: render, continue
WaitTimeout ==
    /\ pc = "loop"
    /\ pending # {}
    /\ WaitSplit(pending, fstate)[1] = {}
    /\ timeouts < MaxTimeouts
    /\ timeouts' = timeouts + 1
    /\ renders' = Append(renders, render_progress(completed, total))
    /\ UNCHANGED <<rows, original, column, dry_run, workers, client, invoker, pc, nextIdx,
                   fstate, ftext, foutcome, pending, done, completed,
                   applied, invoked, startOrder, exc>>

\* core.py:63-64: the wait returns a non-empty done set
WaitDone ==
    /\ pc = "loop"
    /\ pending # {}
    /\ WaitSplit(pending, fstate)[1] # {}
    /\ done' = WaitSplit(pending, fstate)[1]
    /\ pending' = WaitSplit(pending, fstate)[2]
    /\ pc' = "apply"
    /\ UNCHANGED <<rows, original, column, dry_run, workers, client, invoker, nextIdx,
                   fstate, ftext, foutcome, completed, renders, timeouts,
                   applied, invoked, startOrder, exc>>

ApplyIndex_ByArrival(o) == completed

\* the index a result is written to
ApplyIndex(o) == o.index

\* core.py:69-72: one iteration of `for future in done` whose result() returns
ApplyResult(i) ==
    /\ pc = "apply"
    /\ i \in done
    /\ foutcome[i].kind = "ok"
    /\ rows' = [rows EXCEPT ![ApplyIndex(foutcome[i])] =
                   SetItem(@, column, foutcome[i].text)]
    /\ applied' = [applied EXCEPT ![ApplyIndex(foutcome[i])] = @ + 1]
    /\ completed' = completed + 1
    /\ done' = done \ {i}
    /\ UNCHANGED <<original, column, dry_run, workers, client, invoker, pc, nextIdx,
                   fstate, ftext, foutcome, pending, renders, timeouts,
                   invoked, startOrder, exc>>

\* core.py:70: future.result() re-raises the task's exception
ResultRaises(i) ==
    /\ pc = "apply"
    /\ i \in done
    /\ foutcome[i].kind = "err"
    /\ exc' = foutcome[i].exc
    /\ pc' = "unwind"
    /\ UNCHANGED <<rows, original, column, dry_run, workers, client, invoker, nextIdx,
                   fstate, ftext, foutcome, pending, done, completed, renders, timeouts,
                   applied, invoked, startOrder>>

\* core.py:74: render after the done set was applied
RenderAfterApply ==
    /\ pc = "apply"
    /\ done = {}
    /\ renders' = Append(renders, render_progress(completed, total))
    /\ pc' = "loop"
    /\ UNCHANGED <<rows, original, column, dry_run, workers, client, invoker, nextIdx,
                   fstate, ftext, foutcome, pending, done, completed, timeouts,
                   applied, invoked, startOrder, exc>>

AllTasksFinished == \A i \in Indices : fstate[i] = "finished"

\* core.py:63, 54: the loop ends; the with-block shuts the pool down and returns
LoopExit ==
    /\ pc = "loop"
    /\ pending = {}
    /\ AllTasksFinished
    /\ pc' = "returned"
    /\ UNCHANGED <<rows, original, column, dry_run, workers, client, invoker, nextIdx,
                   fstate, ftext, foutcome, pending, done, completed, renders, timeouts,
                   applied, invoked, startOrder, exc>>

\* core.py:54: leaving the with-block on an exception: shutdown(wait=True)
\* joins the workers, which drain the work queue, then the exception leaves
Unwind ==
    /\ pc = "unwind"
    /\ AllTasksFinished
    /\ pc' = "raised"
    /\ UNCHANGED <<rows, original, column, dry_run, workers, client, invoker, nextIdx,
                   fstate, ftext, foutcome, pending, done, completed, renders, timeouts,
                   applied, invoked, startOrder, exc>>

BatchNext ==
    \/ EmptyBatch
    \/ OpenPool
    \/ Submit
    \/ FirstRender
    \/ \E i \in Indices : TaskStart(i)
    \/ \E i \in Indices : TaskFinish(i)
    \/ WaitTimeout
    \/ WaitDone
    \/ \E i \in Indices : ApplyResult(i)
    \/ \E i \in Indices : ResultRaises(i)
    \/ RenderAfterApply
    \/ LoopExit
    \/ Unwind

(* ------------------------------------------------------------------ *)
(* One invocation: call_openai                                         *)
(* ------------------------------------------------------------------ *)
MaxInvocations == 2
MaxRetries == 1
\* retry ceilings explored when a single invocation runs alone
MaxSoloRetries == 3

Invocations == 1..MaxInvocations

VARIABLES
    USE_RESPONSE_FORMAT,    \* the process-wide capability flag
    RESPONSE_FORMAT_LOCK,   \* 0 when free, else the invocation holding it
    RETRYABLE_EXCEPTIONS,   \* the classes resolved at import
    max_retries,
    ipc,                    \* invocation -> position in call_openai
    attempt,
    use_structured_output,
    calls,                  \* invocation -> sequence of requests sent
    sleeps,                 \* invocation -> sequence of backoff delays slept
    err,                    \* invocation -> the exception last caught
    outcome,                \* invocation -> value returned or exception raised
    transients,             \* invocation -> transient failures handled so far
    shapeRejections,        \* invocation -> attempts that took the shape-rejected path
    warnings,               \* capability-downgrade warnings printed
    flagTrace               \* successive values of the flag

ivars == <<USE_RESPONSE_FORMAT, RESPONSE_FORMAT_LOCK, RETRYABLE_EXCEPTIONS, max_retries,
           ipc, attempt, use_structured_output, calls, sleeps, err, outcome,
           transients, shapeRejections, warnings, flagTrace>>

\* exception classes and their bases
Bases(cls) ==
    CASE cls = "RateLimitError" -> {"RateLimitError", "APIError", "Exception"}
      [] cls = "APIError" -> {"APIError", "Exception"}
      [] cls = "APITimeoutError" -> {"APITimeoutError", "APIError", "Exception"}
      [] OTHER -> {cls, "Exception"}

\* isinstance(e, classes)
IsInstance(cls, classes) == Bases(cls) \cap classes # {}

\* openai_client.py:40-54
SdkRetryable == {"RateLimitError", "APIError", "APITimeoutError"}
RetryableFor_NoFallback(resolved) == resolved
RetryableFor(resolved) == IF resolved # {} THEN resolved ELSE {"Exception"}

\* values found in a response
None == [t |-> "none"]
Str(s) == [t |-> "str", s |-> s]
Dict(d) == [t |-> "dict", d |-> d]
List == [t |-> "list"]
\* a text payload: its characters are blank or not, json.loads fails or
\* yields `parsed`
TextPayload(blank, parsed) == [t |-> "text", blank |-> blank, parsed |-> parsed]
JsonError == [t |-> "JSONDecodeError"]

Found(v) == [kind |-> "found", value |-> v]
Continue == [kind |-> "next"]
Raises(cls) == [kind |-> "raise", cls |-> cls]

Candidate_Unstripped(d) ==
    IF "rewritten_html" \in DOMAIN d
       /\ d["rewritten_html"].t = "str"
       /\ Strip(d["rewritten_html"].s) # <<>>
    THEN Found(d["rewritten_html"].s)
    ELSE Continue

\* dict.get("rewritten_html") followed by the str / strip test
Candidate(d) ==
    IF "rewritten_html" \in DOMAIN d
       /\ d["rewritten_html"].t = "str"
       /\ Strip(d["rewritten_html"].s) # <<>>
    THEN Found(Strip(d["rewritten_html"].s))
    ELSE Continue

\* openai_client.py:89-97: the text payload of one content item
ExtractText(text_payload) ==
    IF text_payload.t = "text" /\ ~text_payload.blank
    THEN IF text_payload.parsed = JsonError THEN Continue
         ELSE IF text_payload.parsed.t # "dict" THEN Raises("AttributeError")
         ELSE Candidate(text_payload.parsed.d)
    ELSE Continue

\* openai_client.py:84-97: one content item
ExtractContent(content) ==
    LET fromJson == IF content.json.t = "dict" THEN Candidate(content.json.d) ELSE Continue
    IN IF fromJson.kind = "found" THEN fromJson ELSE ExtractText(content.text)

RECURSIVE ExtractContents(_)
ExtractContents(contents) ==
    IF contents = <<>> THEN Continue
    ELSE LET r == ExtractContent(Head(contents))
         IN IF r.kind = "next" THEN ExtractContents(Tail(contents)) ELSE r

RECURSIVE ExtractBlocks(_)
ExtractBlocks(blocks) ==
    IF blocks = <<>> THEN Continue
    ELSE LET r == ExtractContents(Head(blocks))
         IN IF r.kind = "next" THEN ExtractBlocks(Tail(blocks)) ELSE r

\* extract_rewritten_html(response)
extract_rewritten_html(response) ==
    IF response.output = <<>> THEN Raises("ValueError")
    ELSE LET r == ExtractBlocks(response.output)
         IN IF r.kind = "next" THEN Raises("ValueError") ELSE r

Item(j, t) == [json |-> j, text |-> t]
RespStructured ==
    [output |-> << <<Item(Dict([k \in {"rewritten_html"} |-> Str(<<" ", "s">>)]), None)>> >>]
RespPlainText ==
    [output |-> << <<Item(None,
        TextPayload(FALSE, Dict([k \in {"rewritten_html"} |-> Str(<<"p", " ">>)])))>> >>]
RespEmpty == [output |-> <<>>]
RespBlankField ==
    [output |-> << <<Item(Dict([k \in {"rewritten_html"} |-> Str(<<" ">>)]), None)>> >>]

\* what one service call may do
ServiceAnswers ==
    { [kind |-> "response", resp |-> r] : r \in {RespStructured, RespPlainText, RespEmpty, RespBlankField} }
    \cup { [kind |-> "raise", cls |-> "TypeError", shape |-> TRUE],
           [kind |-> "raise", cls |-> "TypeError", shape |-> FALSE],
           [kind |-> "raise", cls |-> "RateLimitError", shape |-> FALSE],
           [kind |-> "raise", cls |-> "KeyError", shape |-> FALSE] }

\* what the try block (openai_client.py:116-152) does with the answer
TryResult(ans) ==
    IF ans.kind = "raise" THEN ans
    ELSE LET r == extract_rewritten_html(ans.resp)
         IN IF r.kind = "found" THEN [kind |-> "return", value |-> r.value]
            ELSE [kind |-> "raise", cls |-> r.cls, shape |-> FALSE]

RequestKwargs_AlwaysStructured(structured) == {"text"}

\* openai_client.py:119-121: the request's keyword arguments
RequestKwargs(structured) == IF structured THEN {"text"} ELSE {}

\* openai_client.py:115
NextAttempt(a) == a + 1

RECURSIVE Pow2(_)
Pow2(k) == IF k <= 0 THEN 1 ELSE 2 * Pow2(k - 1)

SleepFor_NoJitter(a) == 10 * Pow2(a)

\* openai_client.py:172: backoff_base ** attempt + 0.1 * attempt, in tenths of a second
SleepFor(a) == 10 * Pow2(a) + a

Exhausted_OneLate(a, m) == a > m + 1

Exhausted_Inverted(a, m) == a < m

\* openai_client.py:170
Exhausted(a, m) == a > m

IsShapeRejected_WhateverRequest(structured, e) ==
    IsInstance(e.cls, {"TypeError"}) /\ e.shape

IsShapeRejected_AnyTypeError(structured, e) == IsInstance(e.cls, {"TypeError"})

\* openai_client.py:155-159
IsShapeRejected(structured, e) ==
    structured /\ IsInstance(e.cls, {"TypeError"}) /\ e.shape

FlagAfterShapeRejected_Toggle(flag) == ~flag

\* openai_client.py:161-162: the flag after the check-and-set
FlagAfterShapeRejected(flag) == IF flag THEN FALSE ELSE flag

WarnsOnFlip_Always(seen) == TRUE

\* openai_client.py:161-166: the warning is printed in the branch that sets the flag
WarnsOnFlip(seen) == seen

LockOnExit_Kept(w) == w

\* openai_client.py:117-118, 160-166: leaving the `with` block releases the lock
LockOnExit(w) == 0

LockAcquirable_NoExclusion(lock) == TRUE

\* openai_client.py:117, 160: `with RESPONSE_FORMAT_LOCK` enters when no thread holds it
LockAcquirable(lock) == lock = 0

NextIteration_SharedCounter(att, w) == [v \in DOMAIN att |-> NextAttempt(att[v])]

\* openai_client.py:113-115: attempt is a local of the invocation
NextIteration(att, w) == [att EXCEPT ![w] = NextAttempt(@)]

NoExc == [cls |-> "none"]
\* the exception caught by an except clause, with the shape of the request
\* that was answered by it
Caught(e, structured) == [cls |-> e.cls, shape |-> e.shape, structured |-> structured]
Pending == [kind |-> "none"]

InvokeStart ==
    /\ USE_RESPONSE_FORMAT = TRUE
    /\ RESPONSE_FORMAT_LOCK = 0
    /\ RETRYABLE_EXCEPTIONS \in {RetryableFor(SdkRetryable), RetryableFor({})}
    /\ ipc = [w \in Invocations |-> "idle"]
    /\ attempt = [w \in Invocations |-> 0]
    /\ use_structured_output = [w \in Invocations |-> FALSE]
    /\ calls = [w \in Invocations |-> <<>>]
    /\ sleeps = [w \in Invocations |-> <<>>]
    /\ err = [w \in Invocations |-> NoExc]
    /\ outcome = [w \in Invocations |-> Pending]
    /\ transients = [w \in Invocations |-> 0]
    /\ shapeRejections = [w \in Invocations |-> <<>>]
    /\ warnings = 0
    /\ flagTrace = <<TRUE>>

InvokeInit == InvokeStart /\ max_retries \in 0..MaxRetries

\* openai_client.py:113-115: the invocation starts its first attempt
Begin(w) ==
    /\ ipc[w] = "idle"
    /\ attempt' = [attempt EXCEPT ![w] = NextAttempt(0)]
    /\ ipc' = [ipc EXCEPT ![w] = "acquire_read"]
    /\ UNCHANGED <<USE_RESPONSE_FORMAT, RESPONSE_FORMAT_LOCK, RETRYABLE_EXCEPTIONS,
                   max_retries, use_structured_output, calls, sleeps, err, outcome,
                   transients, shapeRejections, warnings, flagTrace>>

\* openai_client.py:117: with RESPONSE_FORMAT_LOCK (acquire)
AcquireForRead(w) ==
    /\ ipc[w] = "acquire_read"
    /\ LockAcquirable(RESPONSE_FORMAT_LOCK)
    /\ RESPONSE_FORMAT_LOCK' = w
    /\ ipc' = [ipc EXCEPT ![w] = "read"]
    /\ UNCHANGED <<USE_RESPONSE_FORMAT, RETRYABLE_EXCEPTIONS, max_retries, attempt,
                   use_structured_output, calls, sleeps, err, outcome,
                   transients, shapeRejections, warnings, flagTrace>>

\* openai_client.py:118-123: read the flag, release, build and send the request
ReadFlagAndSend(w) ==
    /\ ipc[w] = "read"
    /\ use_structured_output' = [use_structured_output EXCEPT ![w] = USE_RESPONSE_FORMAT]
    /\ RESPONSE_FORMAT_LOCK' = LockOnExit(w)
    /\ calls' = [calls EXCEPT ![w] =
                    Append(@, [kwargs |-> RequestKwargs(USE_RESPONSE_FORMAT),
                               flag |-> USE_RESPONSE_FORMAT,
                               attempt |-> attempt[w]])]
    /\ ipc' = [ipc EXCEPT ![w] = "in_flight"]
    /\ UNCHANGED <<USE_RESPONSE_FORMAT, RETRYABLE_EXCEPTIONS, max_retries, attempt,
                   sleeps, err, outcome, transients, shapeRejections, warnings, flagTrace>>

\* openai_client.py:151-152: a usable response: return the extracted field
Return(w, ans) ==
    /\ TryResult(ans).kind = "return"
    /\ outcome' = [outcome EXCEPT ![w] =
                      [kind |-> "return", value |-> TryResult(ans).value, resp |-> ans.resp]]
    /\ ipc' = [ipc EXCEPT ![w] = "done"]
    /\ UNCHANGED <<err, sleeps, transients, shapeRejections>>

\* openai_client.py:153-167: shape-rejected while the request was structured
CatchShapeRejected(w, ans) ==
    /\ TryResult(ans).kind = "raise"
    /\ IsShapeRejected(use_structured_output[w], TryResult(ans))
    /\ err' = [err EXCEPT ![w] = Caught(ans, use_structured_output[w])]
    /\ shapeRejections' = [shapeRejections EXCEPT ![w] = Append(@, attempt[w])]
    /\ ipc' = [ipc EXCEPT ![w] = "acquire_flip"]
    /\ UNCHANGED <<outcome, sleeps, transients>>

\* openai_client.py:168: any other TypeError is re-raised
\* openai_client.py:175-176: so is an exception that is not retryable
Reraise(w, ans) ==
    LET e == TryResult(ans) IN
    /\ e.kind = "raise"
    /\ ~IsShapeRejected(use_structured_output[w], e)
    /\ IsInstance(e.cls, {"TypeError"}) \/ ~IsInstance(e.cls, RETRYABLE_EXCEPTIONS)
    /\ err' = [err EXCEPT ![w] = Caught(e, use_structured_output[w])]
    /\ outcome' = [outcome EXCEPT ![w] = [kind |-> "raise", cls |-> e.cls]]
    /\ ipc' = [ipc EXCEPT ![w] = "done"]
    /\ UNCHANGED <<sleeps, transients, shapeRejections>>

\* openai_client.py:169-171: a retryable error with the attempts used up
RaiseExhausted(w, ans) ==
    LET e == TryResult(ans) IN
    /\ e.kind = "raise"
    /\ ~IsInstance(e.cls, {"TypeError"})
    /\ IsInstance(e.cls, RETRYABLE_EXCEPTIONS)
    /\ Exhausted(attempt[w], max_retries)
    /\ err' = [err EXCEPT ![w] = Caught(e, use_structured_output[w])]
    /\ transients' = [transients EXCEPT ![w] = @ + 1]
    /\ outcome' = [outcome EXCEPT ![w] =
                      [kind |-> "raise", cls |-> "RuntimeError",
                       stated |-> max_retries, cause |-> e.cls]]
    /\ ipc' = [ipc EXCEPT ![w] = "done"]
    /\ UNCHANGED <<sleeps, shapeRejections>>

\* openai_client.py:169-174: a retryable error: compute the delay and sleep
Backoff(w, ans) ==
    LET e == TryResult(ans) IN
    /\ e.kind = "raise"
    /\ ~IsInstance(e.cls, {"TypeError"})
    /\ IsInstance(e.cls, RETRYABLE_EXCEPTIONS)
    /\ ~Exhausted(attempt[w], max_retries)
    /\ err' = [err EXCEPT ![w] = Caught(e, use_structured_output[w])]
    /\ transients' = [transients EXCEPT ![w] = @ + 1]
    /\ sleeps' = [sleeps EXCEPT ![w] = Append(@, SleepFor(attempt[w]))]
    /\ ipc' = [ipc EXCEPT ![w] = "sleeping"]
    /\ UNCHANGED <<outcome, shapeRejections>>

\* openai_client.py:123-176: the service answers the request in flight
ServiceAnswer(w) ==
    /\ ipc[w] = "in_flight"
    /\ \E ans \in ServiceAnswers :
          \/ Return(w, ans)
          \/ CatchShapeRejected(w, ans)
          \/ Reraise(w, ans)
          \/ RaiseExhausted(w, ans)
          \/ Backoff(w, ans)
    /\ UNCHANGED <<USE_RESPONSE_FORMAT, RESPONSE_FORMAT_LOCK, RETRYABLE_EXCEPTIONS,
                   max_retries, attempt, use_structured_output, calls, warnings, flagTrace>>

\* openai_client.py:160: with RESPONSE_FORMAT_LOCK (acquire)
AcquireForFlip(w) ==
    /\ ipc[w] = "acquire_flip"
    /\ LockAcquirable(RESPONSE_FORMAT_LOCK)
    /\ RESPONSE_FORMAT_LOCK' = w
    /\ ipc' = [ipc EXCEPT ![w] = "flip"]
    /\ UNCHANGED <<USE_RESPONSE_FORMAT, RETRYABLE_EXCEPTIONS, max_retries, attempt,
                   use_structured_output, calls, sleeps, err, outcome,
                   transients, shapeRejections, warnings, flagTrace>>

\* openai_client.py:161: `if USE_RESPONSE_FORMAT`, inside the critical section
FlipCheck(w) ==
    /\ ipc[w] = "flip"
    /\ ipc' = [ipc EXCEPT ![w] = IF USE_RESPONSE_FORMAT THEN "flip_set" ELSE "flip_skip"]
    /\ UNCHANGED <<USE_RESPONSE_FORMAT, RESPONSE_FORMAT_LOCK, RETRYABLE_EXCEPTIONS,
                   max_retries, attempt, use_structured_output, calls, sleeps, err, outcome,
                   transients, shapeRejections, warnings, flagTrace>>

\* openai_client.py:162-167, 115: set the flag and warn when the check saw it
\* true, release the lock, continue with the next iteration
FlipAndContinue(w) ==
    /\ ipc[w] \in {"flip_set", "flip_skip"}
    /\ USE_RESPONSE_FORMAT' = FlagAfterShapeRejected(ipc[w] = "flip_set")
    /\ warnings' = IF WarnsOnFlip(ipc[w] = "flip_set") THEN warnings + 1 ELSE warnings
    /\ flagTrace' = IF USE_RESPONSE_FORMAT' # USE_RESPONSE_FORMAT
                    THEN Append(flagTrace, USE_RESPONSE_FORMAT') ELSE flagTrace
    /\ RESPONSE_FORMAT_LOCK' = LockOnExit(w)
    /\ attempt' = NextIteration(attempt, w)
    /\ ipc' = [ipc EXCEPT ![w] = "acquire_read"]
    /\ UNCHANGED <<RETRYABLE_EXCEPTIONS, max_retries, use_structured_output, calls,
                   sleeps, err, outcome, transients, shapeRejections>>

\* openai_client.py:174, 114-115: the sleep ends, next iteration
WakeUp(w) ==
    /\ ipc[w] = "sleeping"
    /\ attempt' = NextIteration(attempt, w)
    /\ ipc' = [ipc EXCEPT ![w] = "acquire_read"]
    /\ UNCHANGED <<USE_RESPONSE_FORMAT, RESPONSE_FORMAT_LOCK, RETRYABLE_EXCEPTIONS,
                   max_retries, use_structured_output, calls, sleeps, err, outcome,
                   transients, shapeRejections, warnings, flagTrace>>

\* one step of invocation w
InvokeStep(w) ==
    \/ Begin(w)
    \/ AcquireForRead(w)
    \/ ReadFlagAndSend(w)
    \/ ServiceAnswer(w)
    \/ AcquireForFlip(w)
    \/ FlipCheck(w)
    \/ FlipAndContinue(w)
    \/ WakeUp(w)

InvokeNext ==
    \/ \E w \in Invocations : Begin(w)
    \/ \E w \in Invocations : AcquireForRead(w)
    \/ \E w \in Invocations : ReadFlagAndSend(w)
    \/ \E w \in Invocations : ServiceAnswer(w)
    \/ \E w \in Invocations : AcquireForFlip(w)
    \/ \E w \in Invocations : FlipCheck(w)
    \/ \E w \in Invocations : FlipAndContinue(w)
    \/ \E w \in Invocations : WakeUp(w)

(* ------------------------------------------------------------------ *)
(* The run: run(config)                                                *)
(* ------------------------------------------------------------------ *)
VARIABLES
    rpc,            \* position in run(): "off" when no run is modelled
    config,         \* the RunConfig and the environment it runs in
    fileRows,       \* the rows load_rows returns
    headers,        \* the headers load_rows returns
    clientsCreated, \* number of clients create_client has built
    saved,          \* the calls of save_rows: sequence of [headers, rows]
    runError        \* the error run() ends with

\* number of rows of the input file explored for run()
MaxFileRows == 2

rvars == <<rpc, config, fileRows, headers, clientsCreated, saved, runError>>

NoError == [cls |-> "none"]

\* rows of a file whose header has the given fields
FileRowChoices(hs) ==
    IF "col" \in hs
    THEN { [f \in {"col", "title"} |-> IF f = "col" THEN t ELSE TitleOf] : t \in Texts }
    ELSE { [f \in {"title"} |-> TitleOf] }

Range(seq) == { seq[k] : k \in 1..Len(seq) }

\* rows[:limit]
Slice(rs, limit) == [i \in { j \in DOMAIN rs : j < limit } |-> rs[i]]

\* core.py:107-111: the checks made before the file is read
InputError(input_path) ==
    IF input_path = "" THEN [cls |-> "SystemExit", about |-> "input"]
    ELSE IF input_path = "missing" THEN [cls |-> "FileNotFoundError", about |-> "input"]
    ELSE NoError

ColumnError_ListsNothing(hs, col) ==
    IF col \notin Range(hs)
    THEN [cls |-> "ValueError", about |-> "column", listed |-> <<>>]
    ELSE NoError

\* core.py:115-118: the target field must be one of the headers
ColumnError(hs, col) ==
    IF col \notin Range(hs)
    THEN [cls |-> "ValueError", about |-> "column", listed |-> hs]
    ELSE NoError

LimitError_Ignored(limit_rows) == NoError

\* core.py:121-123: a limit below 1 is refused
LimitError(limit_rows) ==
    IF limit_rows # <<>> /\ limit_rows[1] < 1
    THEN [cls |-> "ValueError", about |-> "limit"]
    ELSE NoError

\* core.py:120-125: the rows handed to the engine
TargetRows(rs, limit_rows) ==
    IF limit_rows # <<>> /\ limit_rows[1] < Cardinality(DOMAIN rs)
    THEN Slice(rs, limit_rows[1])
    ELSE rs

\* openai_client.py:57-62: create_client needs the credential
ClientError(credential) ==
    IF ~credential THEN [cls |-> "EnvironmentError", about |-> "credential"] ELSE NoError

AfterEngine_AlwaysSaves(engine_pc) == "save"

\* core.py:141-155: an exception of the engine ends the run, else the rows are saved
AfterEngine(engine_pc) == IF engine_pc = "raised" THEN "abort" ELSE "save"

\* core.py:155: the rows handed to save_rows
OutputRows(target_rows, all_rows) == target_rows

RunInit ==
    /\ rpc = "begin"
    /\ config \in [input_path : {"", "missing", "file"},
                   limit_rows : {<<>>} \cup { <<k>> : k \in 0..MaxFileRows },
                   dry_run : BOOLEAN,
                   workers : 0..MaxWorkers,
                   credential : BOOLEAN]
    /\ headers \in { <<"col", "title">>, <<"title">> }
    /\ \E n \in 0..MaxFileRows : fileRows \in [0..(n - 1) -> FileRowChoices(Range(headers))]
    /\ clientsCreated = 0
    /\ saved = <<>>
    /\ runError = NoError

\* no run is part of the model
RunIdle ==
    /\ rpc = "off"
    /\ config = [input_path |-> "file", limit_rows |-> <<>>, dry_run |-> FALSE,
                 workers |-> 1, credential |-> TRUE]
    /\ headers = <<>>
    /\ fileRows = <<>>
    /\ clientsCreated = 0
    /\ saved = <<>>
    /\ runError = NoError

\* the engine's variables before run() calls reformulate_rows
EngineNotCalled ==
    /\ rows = <<>>
    /\ original = <<>>
    /\ column = "col"
    /\ dry_run = FALSE
    /\ workers = 1
    /\ client = "None"
    /\ invoker \in {"keyword_mismatch", "bound"}
    /\ pc = "idle"
    /\ nextIdx = 0
    /\ fstate = <<>>
    /\ ftext = <<>>
    /\ foutcome = <<>>
    /\ pending = {}
    /\ done = {}
    /\ completed = 0
    /\ renders = <<>>
    /\ timeouts = 0
    /\ applied = <<>>
    /\ invoked = <<>>
    /\ startOrder = <<>>
    /\ exc = "none"

\* core.py:107-113: check the input path, then load the file
RunLoad ==
    /\ rpc = "begin"
    /\ IF InputError(config.input_path) # NoError
       THEN /\ runError' = InputError(config.input_path)
            /\ rpc' = "failed"
       ELSE /\ rpc' = "loaded"
            /\ UNCHANGED runError
    /\ UNCHANGED <<config, fileRows, headers, clientsCreated, saved, bvars>>

\* core.py:114-132: validate the target field and the limit
RunValidate ==
    /\ rpc = "loaded"
    /\ IF ColumnError(headers, column) # NoError
       THEN /\ runError' = ColumnError(headers, column)
            /\ rpc' = "failed"
       ELSE IF LimitError(config.limit_rows) # NoError
       THEN /\ runError' = LimitError(config.limit_rows)
            /\ rpc' = "failed"
       ELSE /\ rpc' = "validated"
            /\ UNCHANGED runError
    /\ UNCHANGED <<config, fileRows, headers, clientsCreated, saved, bvars>>

\* core.py:139: a run that is not a dry run fails without the credential
RunClientFails ==
    /\ rpc = "validated"
    /\ ~config.dry_run
    /\ ClientError(config.credential) # NoError
    /\ runError' = ClientError(config.credential)
    /\ rpc' = "failed"
    /\ UNCHANGED <<config, fileRows, headers, clientsCreated, saved, bvars>>

\* core.py:139-150: create the client unless dry_run, call reformulate_rows
RunCallEngine ==
    /\ rpc = "validated"
    /\ config.dry_run \/ ClientError(config.credential) = NoError
    /\ clientsCreated' = IF config.dry_run THEN clientsCreated ELSE clientsCreated + 1
    /\ client' = IF config.dry_run THEN "None" ELSE "client"
    /\ rows' = TargetRows(fileRows, config.limit_rows)
    /\ original' = rows'
    /\ dry_run' = config.dry_run
    /\ workers' = Max(1, config.workers)
    /\ fstate' = [i \in DOMAIN rows' |-> "none"]
    /\ ftext' = [i \in DOMAIN rows' |-> <<>>]
    /\ foutcome' = [i \in DOMAIN rows' |-> NoOutcome]
    /\ applied' = [i \in DOMAIN rows' |-> 0]
    /\ invoked' = [i \in DOMAIN rows' |-> <<>>]
    /\ pc' = "start"
    /\ rpc' = "engine"
    /\ UNCHANGED <<config, fileRows, headers, saved, runError, column, invoker, nextIdx,
                   pending, done, completed, renders, timeouts, startOrder, exc>>

\* core.py:141-150: reformulate_rows runs
RunEngine ==
    /\ rpc = "engine"
    /\ BatchNext
    /\ UNCHANGED rvars

\* core.py:154-155: the engine returned: save_rows
RunSave ==
    /\ rpc = "engine"
    /\ pc \in {"returned", "raised"}
    /\ AfterEngine(pc) = "save"
    /\ saved' = Append(saved, [headers |-> headers, rows |-> OutputRows(rows, fileRows)])
    /\ rpc' = "saved"
    /\ UNCHANGED <<config, fileRows, headers, clientsCreated, runError, bvars>>

\* core.py:151-152: the engine raised: SystemExit naming the cause
RunAbort ==
    /\ rpc = "engine"
    /\ pc \in {"returned", "raised"}
    /\ AfterEngine(pc) = "abort"
    /\ runError' = [cls |-> "SystemExit", about |-> "engine", cause |-> exc]
    /\ rpc' = "failed"
    /\ UNCHANGED <<config, fileRows, headers, clientsCreated, saved, bvars>>

RunNext ==
    \/ RunLoad
    \/ RunValidate
    \/ RunClientFails
    \/ RunCallEngine
    \/ RunEngine
    \/ RunSave
    \/ RunAbort

(* ------------------------------------------------------------------ *)
(* The extraction: extract_rewritten_html(response)                    *)
(* ------------------------------------------------------------------ *)
VARIABLES
    response,       \* the response object handed to extract_rewritten_html
    extracted       \* what the call did: nothing yet, a value, or an exception

evars == <<response, extracted>>

\* number of content items of a response
MaxItems == 2

NotExtracted == [kind |-> "none"]

\* the `json` attribute of a content item
ItemJsons ==
    { None,
      Dict([k \in {"rewritten_html"} |-> Str(<<" ", "s">>)]),
      Dict([k \in {"rewritten_html"} |-> Str(<<" ">>)]),
      Dict([k \in {"rewritten_html"} |-> List]) }

\* the `text` attribute of a content item: absent, blank, not JSON, a JSON
\* object with the field, a JSON value that is not an object
ItemTexts ==
    { None,
      TextPayload(TRUE, JsonError),
      TextPayload(FALSE, JsonError),
      TextPayload(FALSE, Dict([k \in {"rewritten_html"} |-> Str(<<"p", " ">>)])),
      TextPayload(FALSE, List) }

ContentItems == { Item(j, t) : j \in ItemJsons, t \in ItemTexts }

\* the items in one block, or one block per item
Layouts(items) == { <<items>>, [k \in 1..Len(items) |-> <<items[k]>>] }

Responses ==
    { [output |-> o] :
        o \in UNION { Layouts(items) :
                        items \in UNION { [1..n -> ContentItems] : n \in 0..MaxItems } } }

ExtractInit ==
    /\ response \in Responses
    /\ extracted = NotExtracted

\* no extraction is part of the model
ExtractIdle ==
    /\ response = RespEmpty
    /\ extracted = NotExtracted

\* openai_client.py:75-99: the call of extract_rewritten_html(response)
Extract ==
    /\ extracted = NotExtracted
    /\ extracted' = extract_rewritten_html(response)
    /\ UNCHANGED response

(* ------------------------------------------------------------------ *)
(* Specifications                                                      *)
(* ------------------------------------------------------------------ *)
vars == <<bvars, ivars, rvars, evars>>

\* no invocation of call_openai's body is part of the batch model
InvokeIdle ==
    /\ USE_RESPONSE_FORMAT = TRUE
    /\ RESPONSE_FORMAT_LOCK = 0
    /\ RETRYABLE_EXCEPTIONS = RetryableFor(SdkRetryable)
    /\ max_retries = 0
    /\ ipc = [w \in Invocations |-> "idle"]
    /\ attempt = [w \in Invocations |-> 0]
    /\ use_structured_output = [w \in Invocations |-> FALSE]
    /\ calls = [w \in Invocations |-> <<>>]
    /\ sleeps = [w \in Invocations |-> <<>>]
    /\ err = [w \in Invocations |-> NoExc]
    /\ outcome = [w \in Invocations |-> Pending]
    /\ transients = [w \in Invocations |-> 0]
    /\ shapeRejections = [w \in Invocations |-> <<>>]
    /\ warnings = 0
    /\ flagTrace = <<TRUE>>

\* no batch is part of the invocation model
BatchIdle ==
    /\ rows = <<>>
    /\ original = <<>>
    /\ column = "col"
    /\ dry_run = FALSE
    /\ workers = 1
    /\ client = "client"
    /\ invoker = "bound"
    /\ pc = "idle"
    /\ nextIdx = 0
    /\ fstate = <<>>
    /\ ftext = <<>>
    /\ foutcome = <<>>
    /\ pending = {}
    /\ done = {}
    /\ completed = 0
    /\ renders = <<>>
    /\ timeouts = 0
    /\ applied = <<>>
    /\ invoked = <<>>
    /\ startOrder = <<>>
    /\ exc = "none"

Init == BatchInit /\ InvokeIdle /\ RunIdle /\ ExtractIdle
Next == BatchNext /\ UNCHANGED <<ivars, rvars, evars>>
Spec == Init /\ [][Next]_vars

\* the pool's threads and the calling thread keep running: every started
\* task finishes and every bounded wait returns
SpecLive == Spec /\ WF_vars(Next)

InitInvoke == InvokeInit /\ BatchIdle /\ RunIdle /\ ExtractIdle
NextInvoke == InvokeNext /\ UNCHANGED <<bvars, rvars, evars>>
SpecInvoke == InitInvoke /\ [][NextInvoke]_vars

\* a single invocation, with larger retry ceilings
InitSolo ==
    InvokeStart /\ max_retries \in 0..MaxSoloRetries /\ BatchIdle /\ RunIdle /\ ExtractIdle
NextSolo == InvokeStep(1) /\ UNCHANGED <<bvars, rvars, evars>>
SpecSolo == InitSolo /\ [][NextSolo]_vars

\* the invocation keeps running: every service call returns, every sleep ends
SpecSoloLive == SpecSolo /\ WF_vars(NextSolo)

\* run(config) around the batch
InitRun == RunInit /\ EngineNotCalled /\ InvokeIdle /\ ExtractIdle
NextRun == RunNext /\ UNCHANGED <<ivars, evars>>
SpecRun == InitRun /\ [][NextRun]_vars

\* extract_rewritten_html applied to a response
InitExtract == ExtractInit /\ BatchIdle /\ InvokeIdle /\ RunIdle
NextExtract == Extract /\ UNCHANGED <<bvars, ivars, rvars>>
SpecExtract == InitExtract /\ [][NextExtract]_vars

(* ------------------------------------------------------------------ *)
(* Properties of the batch (checked under Spec)                        *)
(* ------------------------------------------------------------------ *)
\* a text made of whitespace only (the empty text included)
AllWhitespace(t) == \A k \in 1..Len(t) : t[k] = " "

\* the target-field value of a record, as the engine reads it
FieldOf(row) == Get(row, column, <<>>)

\* C1: when reformulate_rows returns normally, every index has exactly one
\* result, produced by its own task, and that result was applied exactly once
C1_EachIndexAppliedOnce ==
    pc = "returned" =>
        /\ completed = total
        /\ \A i \in Indices :
              /\ foutcome[i].kind = "ok"
              /\ foutcome[i].index = i
              /\ applied[i] = 1

C1_Witness ==
    /\ pc = "returned"
    /\ total >= 2
    /\ ~dry_run
    /\ \A i \in Indices : applied[i] = 1
    /\ \E i \in Indices : invoked[i] # <<>>

\* C2: when reformulate_rows returns normally, whatever the completion order,
\* each record's target field holds the result of the task submitted for that
\* index: the Invoker's result for the record's own original text when the
\* task delegated, the original text otherwise
C2_ResultsAppliedByIndex ==
    pc = "returned" =>
        \A i \in Indices :
            /\ ftext[i] = FieldOf(original[i])
            /\ column \in DOMAIN rows[i]
            /\ rows[i][column] = foutcome[i].text
            /\ rows[i][column] =
                  IF dry_run \/ AllWhitespace(FieldOf(original[i]))
                  THEN FieldOf(original[i])
                  ELSE InvokerResult(FieldOf(original[i]))

C2_Witness ==
    /\ pc = "returned"
    /\ ~dry_run
    /\ workers >= 2
    /\ \E i, j \in Indices :
          /\ i < j
          /\ invoked[i] # <<>>
          /\ rows[i][column] = InvokerResult(FieldOf(original[i]))
          /\ AllWhitespace(FieldOf(original[j]))
          /\ rows[j][column] = FieldOf(original[j])

\* C3: with dry_run set no record's target-field value ever differs from its
\* value before the run, nothing is handed to the Invoker (so no service call
\* is made), the batch never raises, and on return every record is counted
C3_DryRunLeavesRowsUnchanged ==
    dry_run =>
        /\ \A i \in Indices :
              /\ FieldOf(rows[i]) = FieldOf(original[i])
              /\ invoked[i] = <<>>
              /\ (column \in DOMAIN original[i] => rows[i] = original[i])
        /\ pc \notin {"unwind", "raised"}
        /\ (pc = "returned" => completed = total)

\* the scenario ["<p>A</p>", "", "<p>B</p>"], dry-run, two workers
C3_Witness ==
    /\ dry_run
    /\ workers = 2
    /\ pc = "returned"
    /\ total = 3
    /\ completed = 3
    /\ FieldOf(original[0]) = <<"a", " ">>
    /\ original[1] = [f \in {"col", "title"} |-> IF f = "col" THEN <<>> ELSE TitleOf]
    /\ FieldOf(original[2]) = <<"a", " ">>
    /\ rows = original

\* C4: a record whose target-field value is empty or whitespace-only is never
\* handed to the Rewrite Invoker, dry-run or not, and keeps its exact value
C4_BlankNeverSent ==
    \A i \in Indices :
        /\ \A k \in 1..Len(invoked[i]) : ~AllWhitespace(invoked[i][k])
        /\ AllWhitespace(FieldOf(original[i])) =>
              /\ invoked[i] = <<>>
              /\ FieldOf(rows[i]) = FieldOf(original[i])

C4_Witness ==
    /\ pc = "returned"
    /\ ~dry_run
    /\ \E i, j \in Indices :
          /\ column \in DOMAIN original[i]
          /\ FieldOf(original[i]) = <<" ">>
          /\ applied[i] = 1
          /\ FieldOf(rows[i]) = <<" ">>
          /\ invoked[j] # <<>>

\* C5: the number of tasks executing never exceeds max(1, workers), although
\* every record's task is submitted before the orchestrator starts waiting
C5_InFlightBounded ==
    /\ Cardinality(Running) <= (IF workers >= 1 THEN workers ELSE 1)
    /\ pc \in {"loop", "apply", "unwind", "returned", "raised"} =>
          \A i \in Indices : fstate[i] # "none"

C5_Witness ==
    /\ pc = "loop"
    /\ workers = 2
    /\ Cardinality(Running) = 2
    /\ Queued # {}

(* ------------------------------------------------------------------ *)
(* Properties of the invocations (checked under SpecInvoke)            *)
(* ------------------------------------------------------------------ *)
IsExhausted(w) == outcome[w].kind = "raise" /\ outcome[w].cls = "RuntimeError"
HandledShape(w) ==
    shapeRejections[w] # <<>> /\ ipc[w] \notin {"acquire_flip", "flip", "flip_set", "flip_skip"}

\* C6: the capability flag starts true, changes from true to false at most
\* once, and is never changed from false to true
C6_FlagFlipsAtMostOnce ==
    /\ flagTrace \in { <<TRUE>>, <<TRUE, FALSE>> }
    /\ USE_RESPONSE_FORMAT = flagTrace[Len(flagTrace)]

C6_Witness ==
    /\ flagTrace = <<TRUE, FALSE>>
    /\ \E v, w \in Invocations : v # w /\ HandledShape(v) /\ HandledShape(w)

\* C7: a shape-rejected response does not count against the retry ceiling:
\* the k-th backoff of an invocation is 2^k + 0.1k whether or not it saw a
\* shape-rejection, and it fails permanently only at its (max_retries + 1)-th
\* transient failure
C7_ShapeRejectionNotCounted ==
    \A w \in Invocations :
        /\ \A k \in 1..Len(sleeps[w]) : sleeps[w][k] = 10 * Pow2(k) + k
        /\ IsExhausted(w) => transients[w] = max_retries + 1

\* C8: a shape-rejection of the very first call leaves the flag false; the
\* next request of that invocation carries no structured-output parameter,
\* and when it succeeds the invocation returns after exactly two requests
\* with the field extracted from that response; every request built from a
\* read of the flag after the flip is plain
C8_FirstCallShapeRejected ==
    \A w \in Invocations :
        /\ \A k \in 1..Len(calls[w]) :
              calls[w][k].kwargs = (IF calls[w][k].flag THEN {"text"} ELSE {})
        /\ (shapeRejections[w] = <<1>> /\ HandledShape(w)) =>
              /\ ~USE_RESPONSE_FORMAT
              /\ calls[w][1].kwargs = {"text"}
              /\ (Len(calls[w]) >= 2 => calls[w][2].kwargs = {})
              /\ (outcome[w].kind = "return" /\ transients[w] = 0) =>
                    /\ Len(calls[w]) = 2
                    /\ extract_rewritten_html(outcome[w].resp) = Found(outcome[w].value)

C8_Witness ==
    \E w \in Invocations :
        /\ shapeRejections[w] = <<1>>
        /\ outcome[w].kind = "return"
        /\ Len(calls[w]) = 2
        /\ outcome[w].resp = RespPlainText
        /\ outcome[w].value = <<"p">>
        /\ ~USE_RESPONSE_FORMAT

\* C9: an invocation whose service calls all fail transiently makes exactly
\* max_retries service calls before it raises the retry-exhausted error
C9_ExactlyMaxRetriesCalls ==
    \A w \in Invocations :
        (max_retries >= 1 /\ IsExhausted(w) /\ transients[w] = Len(calls[w])) =>
            Len(calls[w]) = max_retries

\* C10: the number stated in the retry-exhausted error equals the number of
\* service attempts the invocation made, and the last transient error is its
\* cause
C10_MessageStatesAttempts ==
    \A w \in Invocations :
        (max_retries >= 1 /\ IsExhausted(w)) =>
            /\ outcome[w].stated = Len(calls[w])
            /\ outcome[w].cause = err[w].cls

(* ------------------------------------------------------------------ *)
(* Properties of one invocation (checked under SpecSolo)               *)
(* ------------------------------------------------------------------ *)
\* C11: an invocation whose service fails transiently k times, with
\* 0 <= k <= max_retries - 1, and then succeeds returns the success value
\* after k + 1 service calls and k sleeps; it never gives up on a failure
\* that leaves it within those k
C11_SuccessAfterTransients ==
    \A w \in Invocations :
        /\ (/\ outcome[w].kind = "return"
            /\ shapeRejections[w] = <<>>
            /\ transients[w] <= max_retries - 1) =>
              /\ Len(calls[w]) = transients[w] + 1
              /\ Len(sleeps[w]) = transients[w]
              /\ extract_rewritten_html(outcome[w].resp) = Found(outcome[w].value)
        /\ (IsExhausted(w) /\ shapeRejections[w] = <<>>) => transients[w] >= max_retries

C11_Witness ==
    \E w \in Invocations :
        /\ max_retries = 3
        /\ outcome[w].kind = "return"
        /\ shapeRejections[w] = <<>>
        /\ transients[w] = 2
        /\ err[w].cls = "RateLimitError"
        /\ Len(calls[w]) = 3
        /\ Len(sleeps[w]) = 2
        /\ outcome[w].value = <<"s">>

\* C12: when an attempt fails transiently and a retry is allowed, the
\* invocation sleeps exactly 2^k + 0.1k seconds, k being the number of that
\* attempt (2.1 s for a first attempt), and the successive delays of an
\* invocation are strictly increasing
C12_BackoffDelay ==
    /\ [][\A w \in Invocations :
             sleeps'[w] # sleeps[w] =>
                 sleeps'[w] = Append(sleeps[w], 10 * Pow2(attempt[w]) + attempt[w])]_vars
    /\ [](\A w \in Invocations :
             /\ \A k \in 1..(Len(sleeps[w]) - 1) : sleeps[w][k] < sleeps[w][k + 1]
             /\ (sleeps[w] # <<>> /\ shapeRejections[w] = <<>>) => sleeps[w][1] = 21)

C12_Witness ==
    \E w \in Invocations : sleeps[w] = <<21, 42, 83>>

\* C13: a response from which no usable field can be extracted makes the
\* invocation fail at once with the extraction error: no further service
\* call and no sleep, whatever max_retries is
C13_MalformedFailsAtOnce ==
    \A w \in Invocations :
        err[w].cls = "ValueError" =>
            /\ ipc[w] = "done"
            /\ outcome[w].kind = "raise"
            /\ outcome[w].cls = "ValueError"
            /\ Len(sleeps[w]) = transients[w]

\* an error that is neither shape-rejected nor in the transient set
Unclassified(e) ==
    /\ e.cls # "none"
    /\ ~(e.cls = "TypeError" /\ e.shape /\ e.structured)
    /\ Bases(e.cls) \cap RETRYABLE_EXCEPTIONS = {}

SomeTaskFailed == \E i \in Indices : foutcome[i].kind = "err"

\* C15: save_rows is called at most once and only after every record has
\* resolved and been applied; once a task has ended in an error nothing is
\* saved, and run() ends with one SystemExit whose cause is that task's error
C15_FailureWritesNoOutput ==
    /\ saved # <<>> =>
          /\ Len(saved) = 1
          /\ pc = "returned"
          /\ runError = NoError
          /\ \A i \in Indices : foutcome[i].kind = "ok" /\ applied[i] = 1
    /\ SomeTaskFailed =>
          /\ saved = <<>>
          /\ rpc \in {"engine", "failed"}
          /\ rpc = "failed" =>
                /\ runError = [cls |-> "SystemExit", about |-> "engine", cause |-> exc]
                /\ \E i \in Indices : foutcome[i].kind = "err" /\ foutcome[i].exc = exc

C15_Witness ==
    /\ rpc = "failed"
    /\ runError.cls = "SystemExit"
    /\ runError.about = "engine"
    /\ runError.cause = "RuntimeError"
    /\ \E i \in Indices : applied[i] = 1 /\ rows[i] # original[i]
    /\ saved = <<>>

\* C16: once the orchestrator has observed a failed task, the error can leave
\* reformulate_rows at once, whatever the other tasks are doing
C16_ErrorPropagatesWithoutWaiting ==
    pc = "unwind" => ENABLED Unwind

\* C17: through the package engine, in a batch that is not a dry run, no task
\* of a non-blank record fails on the call itself: it yields the index and
\* the invoker's result, and the batch does not abort
C17_PackageEngineDelegates ==
    (invoker = "keyword_mismatch" /\ ~dry_run /\ client = "client") =>
        /\ pc \notin {"unwind", "raised"}
        /\ \A i \in Indices :
              (fstate[i] = "finished" /\ ~IsBlank(ftext[i])) =>
                  foutcome[i] = Ok(i, InvokerResult(ftext[i]), <<ftext[i]>>)

\* C18: with a limit L, 1 <= L < number of rows, only records 0..L-1 are
\* given to the engine, and the output holds every record, those from L on
\* with their original values
C18_RowsPastLimitPassThrough ==
    \A L \in 1..MaxFileRows :
        (config.limit_rows = <<L>> /\ L < Cardinality(DOMAIN fileRows)) =>
            /\ rpc \in {"engine", "saved", "failed"} /\ pc # "idle" =>
                  DOMAIN rows = 0..(L - 1)
            /\ saved # <<>> =>
                  \A i \in DOMAIN fileRows :
                      /\ i \in DOMAIN saved[1].rows
                      /\ i >= L => saved[1].rows[i] = fileRows[i]

\* C19: a batch of zero records submits no task, sends nothing, and returns
\* after exactly one render, which shows 100%
C19_EmptyBatchCompletes ==
    total = 0 =>
        /\ pc \in {"start", "returned"}
        /\ nextIdx = 0
        /\ startOrder = <<>>
        /\ DOMAIN invoked = {}
        /\ pc = "start" => renders = <<>>
        /\ pc = "returned" =>
              /\ Len(renders) = 1
              /\ renders[1] = [current |-> 0, maximum |-> 0, percent |-> 10000]

C19_Witness ==
    /\ total = 0
    /\ pc = "returned"
    /\ Len(renders) = 1
    /\ renders[1].percent = 10000

\* C20: when the target field is not among the headers, run() goes from the
\* load straight to a ValueError that lists the headers; no client is created,
\* the engine is never called and nothing is saved
C20_AbsentColumnFailsFast ==
    (rpc # "off" /\ column \notin Range(headers)) =>
        /\ rpc \in {"begin", "loaded", "failed"}
        /\ clientsCreated = 0
        /\ pc = "idle"
        /\ startOrder = <<>>
        /\ saved = <<>>
        /\ (rpc = "failed" /\ runError.about # "input") =>
              runError = [cls |-> "ValueError", about |-> "column", listed |-> headers]

C20_Witness ==
    /\ rpc = "failed"
    /\ column \notin Range(headers)
    /\ runError.cls = "ValueError"
    /\ runError.about = "column"
    /\ runError.listed = <<"title">>
    /\ config.limit_rows = <<0>>
    /\ clientsCreated = 0
    /\ saved = <<>>

\* the configuration errors of run(), read off the configuration
MissingInput == config.input_path # "file"
AbsentColumn == column \notin Range(headers)
LimitBelowOne == config.limit_rows # <<>> /\ config.limit_rows[1] < 1
MissingCredential == ~config.dry_run /\ ~config.credential
ConfigurationError == MissingInput \/ AbsentColumn \/ LimitBelowOne \/ MissingCredential

\* C21: a run whose configuration has an error never opens the pool, never
\* sends anything, never creates a client and never saves; when it has
\* ended, it has ended with a configuration error
C21_ConfigErrorBeforeAnyWork ==
    (rpc # "off" /\ ConfigurationError) =>
        /\ rpc \in {"begin", "loaded", "validated", "failed"}
        /\ pc = "idle"
        /\ nextIdx = 0
        /\ startOrder = <<>>
        /\ DOMAIN invoked = {}
        /\ clientsCreated = 0
        /\ saved = <<>>
        /\ rpc = "failed" => runError.about \in {"input", "column", "limit", "credential"}

C21_Witness ==
    /\ rpc = "failed"
    /\ runError = [cls |-> "EnvironmentError", about |-> "credential"]
    /\ ~config.dry_run
    /\ DOMAIN fileRows # {}
    /\ pc = "idle"
    /\ saved = <<>>

\* C22: whatever the batch does, the records are the same in number and
\* position, and every field of a record other than the target keeps the
\* value it had when the batch started
C22_OnlyTargetFieldChanges ==
    /\ DOMAIN rows = DOMAIN original
    /\ \A i \in DOMAIN rows :
          /\ DOMAIN original[i] \subseteq DOMAIN rows[i]
          /\ DOMAIN rows[i] \subseteq DOMAIN original[i] \cup {column}
          /\ \A f \in DOMAIN original[i] \ {column} : rows[i][f] = original[i][f]

C22_Witness ==
    /\ pc = "raised"
    /\ total = 3
    /\ \E i \in Indices : column \in DOMAIN original[i] /\ rows[i][column] # original[i][column]
    /\ \E i \in Indices : column \notin DOMAIN original[i] /\ column \in DOMAIN rows[i]
    /\ \A i \in Indices : rows[i]["title"] = TitleOf

\* C23: a dry run creates no client, does not fail for a missing credential,
\* goes through the pool and the progress loop, and saves the headers and
\* the rows of the input
C23_DryRunOutputEqualsInput ==
    (rpc # "off" /\ config.dry_run) =>
        /\ clientsCreated = 0
        /\ rpc = "failed" => runError.about # "credential"
        /\ rpc = "saved" =>
              /\ renders # <<>>
              /\ DOMAIN fileRows # {} => startOrder # <<>>
              /\ saved = <<[headers |-> headers, rows |-> fileRows]>>

\* the render the code makes of the current count
RenderOfCount == [current |-> completed, maximum |-> total,
                  percent |-> (2 * completed * 10000 + total) \div (2 * total)]

\* C24 as stated: one render before the first wait, one in the step of every
\* wait that elapses with nothing done, and one at the end of the handling
\* of every wait that returned results
C24_RenderAfterEveryWait ==
    [][/\ (pc = "submit" /\ pc' = "loop") => renders' = <<RenderOfCount>>
       /\ (pc = "loop" /\ timeouts' # timeouts) =>
             /\ completed' = completed
             /\ renders' = Append(renders, RenderOfCount)
       /\ (pc = "apply" /\ pc' = "apply") => renders' = renders
       /\ (pc = "apply" /\ pc' # "apply") => renders' = Append(renders, RenderOfCount)]_vars

\* C24: one render before the first wait, one in the step of every wait that
\* elapses with nothing done (showing the unchanged count), and one at the
\* end of the handling of every returned wait whose results were all
\* applied; a result that raises ends the batch with no further render
C24_RenderAfterEveryAppliedWait ==
    [][/\ (pc = "submit" /\ pc' = "loop") => renders' = <<RenderOfCount>>
       /\ (pc = "loop" /\ timeouts' # timeouts) =>
             /\ completed' = completed
             /\ renders' = Append(renders, RenderOfCount)
       /\ (pc = "loop" /\ pc' = "apply") => renders' = renders
       /\ (pc = "apply" /\ pc' = "apply") => renders' = renders
       /\ (pc = "apply" /\ pc' = "loop") =>
             /\ done = {}
             /\ renders' = Append(renders, RenderOfCount)
       /\ (pc = "apply" /\ pc' \notin {"apply", "loop"}) =>
             /\ pc' = "unwind"
             /\ renders' = renders
       /\ pc \in {"unwind", "raised", "returned"} => renders' = renders]_vars

C24_Witness ==
    /\ pc = "returned"
    /\ total = 2
    /\ timeouts = 1
    /\ Len(renders) = 4
    /\ renders[1].current = 0
    /\ renders[2].current = 1
    /\ renders[3].current = 1
    /\ renders[4].current = 2

\* C27: when a batch that is not a dry run returns, the invoker was called
\* exactly once with the original text of every non-blank record and never
\* for a blank one
C27_InvokedOncePerNonBlank ==
    (pc = "returned" /\ ~dry_run) =>
        \A i \in Indices :
            invoked[i] = IF AllWhitespace(FieldOf(original[i]))
                         THEN <<>>
                         ELSE <<FieldOf(original[i])>>

C27_Witness ==
    /\ pc = "returned"
    /\ ~dry_run
    /\ total = 3
    /\ \E i \in Indices : invoked[i] = <<>> /\ FieldOf(original[i]) = <<" ">>
    /\ \E i \in Indices : invoked[i] = << <<"a", " ">> >>
    /\ Cardinality({ i \in Indices : invoked[i] # <<>> }) = 2

\* the positions of an invocation inside `with RESPONSE_FORMAT_LOCK`
InCriticalSection(w) == ipc[w] \in {"read", "flip", "flip_set", "flip_skip"}

\* C25: an invocation reads or writes the flag only inside the lock: whoever
\* is inside a critical section holds the lock, the flag changes only by the
\* step of the holder that saw it true in the same critical section, every
\* request is built from the flag as read by the holder, and no two
\* invocations are ever both about to set the flag
C25_FlagAccessUnderLock ==
    /\ [](/\ \A w \in Invocations : InCriticalSection(w) => RESPONSE_FORMAT_LOCK = w
          /\ Cardinality({ w \in Invocations : ipc[w] = "flip_set" }) <= 1)
    /\ [][/\ USE_RESPONSE_FORMAT' # USE_RESPONSE_FORMAT =>
                \E w \in Invocations :
                    /\ RESPONSE_FORMAT_LOCK = w
                    /\ ipc[w] = "flip_set"
                    /\ ipc'[w] = "acquire_read"
                    /\ RESPONSE_FORMAT_LOCK' = 0
          /\ \A w \in Invocations :
                Len(calls'[w]) # Len(calls[w]) =>
                    /\ RESPONSE_FORMAT_LOCK = w
                    /\ calls'[w][Len(calls'[w])].flag = USE_RESPONSE_FORMAT
                    /\ use_structured_output'[w] = USE_RESPONSE_FORMAT]_vars

C25_Witness ==
    \E v, w \in Invocations :
        /\ v # w
        /\ ipc[w] = "flip_set"
        /\ RESPONSE_FORMAT_LOCK = w
        /\ ipc[v] = "acquire_flip"
        /\ USE_RESPONSE_FORMAT

\* C26: the downgrade warning is printed at most once, exactly in the step
\* that changes the flag from true to false; an invocation that finds the
\* flag already false prints nothing and goes on to its next attempt
C26_WarningAtMostOnce ==
    /\ [](warnings <= 1)
    /\ [][/\ warnings' # warnings <=> (USE_RESPONSE_FORMAT /\ ~USE_RESPONSE_FORMAT')
          /\ warnings' # warnings => warnings' = warnings + 1
          /\ \A w \in Invocations :
                (ipc[w] = "flip_skip" /\ ipc'[w] # ipc[w]) =>
                    /\ warnings' = warnings
                    /\ ipc'[w] = "acquire_read"
                    /\ attempt'[w] = attempt[w] + 1]_vars

C26_Witness ==
    \E v, w \in Invocations :
        /\ v # w
        /\ warnings = 1
        /\ shapeRejections[v] # <<>>
        /\ shapeRejections[w] # <<>>
        /\ Len(calls[v]) >= 2
        /\ Len(calls[w]) >= 2
        /\ ~calls[v][2].flag
        /\ ~calls[w][2].flag

\* C29: a request sent in plain-text shape and answered with shape-rejected
\* ends the invocation with that TypeError: no request and no sleep follow,
\* and the flag is false and stays false
C29_PlainShapeRejectedRaises ==
    \A w \in Invocations :
        (err[w].cls = "TypeError" /\ err[w].shape /\ ~err[w].structured) =>
            /\ ipc[w] = "done"
            /\ outcome[w] = [kind |-> "raise", cls |-> "TypeError"]
            /\ Len(calls[w]) = attempt[w]
            /\ ~calls[w][Len(calls[w])].flag
            /\ Len(sleeps[w]) = transients[w]
            /\ ~USE_RESPONSE_FORMAT

C29_Witness ==
    \E w \in Invocations :
        /\ err[w] = [cls |-> "TypeError", shape |-> TRUE, structured |-> FALSE]
        /\ shapeRejections[w] = <<1>>
        /\ Len(calls[w]) = 2
        /\ sleeps[w] = <<>>
        /\ outcome[w] = [kind |-> "raise", cls |-> "TypeError"]
        /\ ~USE_RESPONSE_FORMAT

\* the state an invocation keeps in its own locals
Locals(w) ==
    <<ipc[w], attempt[w], use_structured_output[w], calls[w], sleeps[w], err[w],
      outcome[w], transients[w], shapeRejections[w]>>

\* C30: a step changes the locals of one invocation only; the attempt count
\* of an invocation is the number of its own iterations, and its delays are
\* those of its own failed attempts, whatever the other invocations do
C30_RetryStatePerInvocation ==
    /\ [](\A w \in Invocations :
            /\ attempt[w] = Len(calls[w]) + (IF ipc[w] \in {"acquire_read", "read"} THEN 1 ELSE 0)
            /\ Len(shapeRejections[w]) + transients[w] <= Len(calls[w])
            /\ Len(sleeps[w]) <= transients[w]
            /\ \A k \in 1..Len(sleeps[w]) :
                  \E a \in 1..attempt[w] : sleeps[w][k] = 10 * Pow2(a) + a)
    /\ [][\A v, w \in Invocations :
             (v # w /\ Locals(w)' # Locals(w)) => Locals(v)' = Locals(v)]_vars

C30_Witness ==
    \E v, w \in Invocations :
        /\ v # w
        /\ sleeps[w] = <<21>>
        /\ attempt[w] = 2
        /\ outcome[w].kind = "raise"
        /\ attempt[v] = 1
        /\ sleeps[v] = <<>>
        /\ outcome[v].kind = "return"

\* the content items of a response, in the order of the blocks
RECURSIVE FlatItems(_)
FlatItems(blocks) == IF blocks = <<>> THEN <<>> ELSE Head(blocks) \o FlatItems(Tail(blocks))

\* the non-blank 'rewritten_html' of a payload, stripped: <<>> or <<value>>
FieldIn(v) ==
    IF /\ v.t = "dict"
       /\ "rewritten_html" \in DOMAIN v.d
       /\ v.d["rewritten_html"].t = "str"
       /\ ~AllWhitespace(v.d["rewritten_html"].s)
    THEN <<Strip(v.d["rewritten_html"].s)>>
    ELSE <<>>

\* what an item yields: its structured payload first, its text payload,
\* de-serialized, second
ItemYield(c) ==
    IF FieldIn(c.json) # <<>> THEN FieldIn(c.json)
    ELSE IF c.text.t = "text" /\ ~c.text.blank THEN FieldIn(c.text.parsed)
    ELSE <<>>

\* C28: the extraction returns what the first item that yields a field
\* yields, and raises the extraction error (ValueError) when none does
C28_FirstFieldOrExtractionError ==
    extracted # NotExtracted =>
        LET items == FlatItems(response.output)
            yielding == { k \in 1..Len(items) : ItemYield(items[k]) # <<>> }
        IN IF yielding = {}
           THEN extracted = Raises("ValueError")
           ELSE \E k \in yielding :
                   /\ \A j \in yielding : k <= j
                   /\ extracted = Found(ItemYield(items[k])[1])

\* C31: tasks are submitted in record order and taken by the workers in
\* record order; with one worker slot a task starts only when every earlier
\* task has finished, so the invoker is called in record order; results are
\* applied in whatever order the tasks complete
C31_StartInRecordOrder ==
    /\ \A i \in Indices : fstate[i] # "none" <=> i < nextIdx
    /\ \A k, l \in 1..Len(startOrder) : k < l => startOrder[k] < startOrder[l]
    /\ \A i, j \in Indices :
          (i < j /\ fstate[j] \in {"running", "finished"}) =>
              fstate[i] \in {"running", "finished"}
    /\ MaxWorkersArg(workers) = 1 =>
          \A i, j \in Indices :
              (i < j /\ fstate[j] \in {"running", "finished"}) => fstate[i] = "finished"

C31_Witness ==
    /\ startOrder = <<0, 1, 2>>
    /\ workers = 2
    /\ applied[0] = 0
    /\ applied[1] = 1
    /\ fstate[0] = "running"
    /\ invoked[1] # <<>>

\* the number of results written to the batch
RECURSIVE SumApplied(_)
SumApplied(S) ==
    IF S = {} THEN 0
    ELSE LET i == CHOOSE x \in S : TRUE IN applied[i] + SumApplied(S \ {i})

\* C32: the completed counter is the number of results applied, is total
\* minus the pending tasks at each loop head, never decreases and never
\* exceeds total; the renders show the counter as it grows, with the
\* percentage rounded to two decimals, and the last render of a batch that
\* returns shows total/total at 100.00%
C32_CompletedCounter ==
    /\ [](/\ completed = SumApplied(Indices)
          /\ completed <= total
          /\ pc = "loop" => completed = total - Cardinality(pending)
          /\ \A k \in 1..Len(renders) :
                /\ renders[k].maximum = total
                /\ renders[k].current <= completed
                /\ k > 1 => renders[k - 1].current <= renders[k].current
                /\ total > 0 =>
                      LET d == renders[k].percent * total - renders[k].current * 10000
                      IN 2 * d <= total /\ 2 * d > 0 - total
          /\ pc = "loop" => renders[Len(renders)].current = completed
          /\ (pc = "returned" /\ total > 0) =>
                renders[Len(renders)] = [current |-> total, maximum |-> total, percent |-> 10000])
    /\ [][completed' >= completed]_vars

C32_Witness ==
    /\ pc = "returned"
    /\ total = 3
    /\ Len(renders) = 4
    /\ renders[2] = [current |-> 1, maximum |-> 3, percent |-> 3333]
    /\ renders[3] = [current |-> 2, maximum |-> 3, percent |-> 6667]
    /\ renders[4] = [current |-> 3, maximum |-> 3, percent |-> 10000]

\* C33: in every state, aborted batches included, the target field of a
\* record holds its original value until the result of the record's own
\* task is applied and that result afterwards; nothing applied is undone
C33_OwnResultOrOriginal ==
    \A i \in Indices :
        /\ applied[i] \in {0, 1}
        /\ applied[i] = 0 => rows[i] = original[i]
        /\ applied[i] = 1 =>
              /\ foutcome[i].kind = "ok"
              /\ ftext[i] = FieldOf(original[i])
              /\ foutcome[i].text \in {ftext[i], InvokerResult(ftext[i])}
              /\ rows[i][column] = foutcome[i].text

C33_Witness ==
    /\ pc = "raised"
    /\ total = 3
    /\ \E i, j, k \in Indices :
          /\ applied[i] = 1
          /\ rows[i][column] = InvokerResult(FieldOf(original[i]))
          /\ foutcome[j].kind = "err"
          /\ rows[j] = original[j]
          /\ foutcome[k].kind = "ok"
          /\ applied[k] = 0
          /\ FieldOf(original[k]) # FieldOf(original[i])

\* C39: a record without the target field is handled as a blank one: nothing
\* is sent for it, dry run or not, and when its result is applied the record
\* gains the target field with the empty string
C39_MissingFieldTreatedAsBlank ==
    \A i \in Indices :
        column \notin DOMAIN original[i] =>
            /\ invoked[i] = <<>>
            /\ fstate[i] = "finished" => foutcome[i] = Ok(i, <<>>, <<>>)
            /\ applied[i] = 1 => (column \in DOMAIN rows[i] /\ rows[i][column] = <<>>)
            /\ pc = "returned" => applied[i] = 1

C39_Witness ==
    /\ pc = "returned"
    /\ ~dry_run
    /\ client = "client"
    /\ \E i \in Indices :
          /\ column \notin DOMAIN original[i]
          /\ invoked[i] = <<>>
          /\ rows[i] = [f \in {"col", "title"} |-> IF f = "col" THEN <<>> ELSE TitleOf]

\* C34: an invocation takes the shape-rejected path at most once, sends at
\* most max_retries + 2 requests, and, when it keeps running and every
\* service call returns, ends by returning or raising
C34_InvocationTerminates ==
    /\ [](\A w \in Invocations :
            /\ Len(shapeRejections[w]) <= 1
            /\ Len(calls[w]) <= max_retries + 2
            /\ attempt[w] <= max_retries + 2)
    /\ <>(ipc[1] = "done" /\ outcome[1].kind \in {"return", "raise"})

C34_Witness ==
    /\ max_retries = MaxSoloRetries
    /\ ipc[1] = "done"
    /\ Len(calls[1]) = max_retries + 2
    /\ Len(sleeps[1]) = max_retries
    /\ shapeRejections[1] = <<max_retries + 1>>
    /\ outcome[1].kind = "return"

\* C36: the lock is held only inside the two critical sections, never by
\* an invocation that is in a service call, asleep or over; when nobody is
\* inside a critical section the lock is free, so an invocation waiting for
\* it can take it; and as long as an invocation is not over, some step is
\* possible
C36_LockNeverHeldAcrossCallOrSleep ==
    /\ RESPONSE_FORMAT_LOCK \in {0} \cup Invocations
    /\ \A w \in Invocations : RESPONSE_FORMAT_LOCK = w => InCriticalSection(w)
    /\ (\A v \in Invocations : ~InCriticalSection(v)) =>
          /\ RESPONSE_FORMAT_LOCK = 0
          /\ \A w \in Invocations :
                /\ ipc[w] = "acquire_read" => ENABLED AcquireForRead(w)
                /\ ipc[w] = "acquire_flip" => ENABLED AcquireForFlip(w)
    /\ (\E w \in Invocations : ipc[w] # "done") => ENABLED InvokeNext

C36_Witness ==
    \E v, w \in Invocations :
        /\ v # w
        /\ ipc[v] = "sleeping"
        /\ ipc[w] = "read"
        /\ RESPONSE_FORMAT_LOCK = w
        /\ attempt[w] = 2
        /\ calls[w][1].flag

\* C37: when no SDK class is resolved the transient set is every exception:
\* every failure but a TypeError is counted as transient and followed by a
\* backoff, and an invocation raises either a TypeError or, once its attempt
\* count exceeds max_retries, the retry-exhausted error naming the failure
C37_FallbackRetriesEverything ==
    RETRYABLE_EXCEPTIONS \cap SdkRetryable = {} =>
        /\ RETRYABLE_EXCEPTIONS = {"Exception"}
        /\ \A w \in Invocations :
              /\ err[w].cls \notin {"none", "TypeError"} =>
                    /\ transients[w] >= 1
                    /\ Len(sleeps[w]) = transients[w]
                          - (IF outcome[w].kind = "raise" /\ outcome[w].cls = "RuntimeError"
                             THEN 1 ELSE 0)
                    /\ ipc[w] = "done" =>
                          \/ outcome[w].kind = "return"
                          \/ /\ attempt[w] > max_retries
                             /\ outcome[w] = [kind |-> "raise", cls |-> "RuntimeError",
                                              stated |-> max_retries, cause |-> err[w].cls]
              /\ outcome[w].kind = "raise" => outcome[w].cls \in {"TypeError", "RuntimeError"}

C37_Witness ==
    /\ RETRYABLE_EXCEPTIONS = {"Exception"}
    /\ max_retries = 2
    /\ err[1].cls = "ValueError"
    /\ sleeps[1] = <<21, 42>>
    /\ Len(calls[1]) = 3
    /\ outcome[1].kind = "raise"
    /\ outcome[1].cls = "RuntimeError"
    /\ outcome[1].cause = "ValueError"

\* C38: a value returned by an invocation is not empty and neither starts
\* nor ends with whitespace
C38_ReturnedValueStripped ==
    \A w \in Invocations :
        outcome[w].kind = "return" =>
            /\ outcome[w].value # <<>>
            /\ outcome[w].value[1] \notin Whitespace
            /\ outcome[w].value[Len(outcome[w].value)] \notin Whitespace

C38_Witness ==
    /\ outcome[1].kind = "return"
    /\ outcome[1].resp = RespStructured
    /\ RespStructured.output[1][1].json.d["rewritten_html"].s = <<" ", "s">>
    /\ outcome[1].value = <<"s">>

\* C35: when every task finishes, reformulate_rows ends by returning or
\* raising; it returns only with an empty pending set and every task
\* succeeded, and it raises exactly when some task ended with an error
C35_BatchTerminates ==
    /\ [](/\ pc = "returned" =>
                /\ pending = {}
                /\ done = {}
                /\ exc = "none"
                /\ \A i \in Indices : fstate[i] = "finished" /\ foutcome[i].kind = "ok"
          /\ pc = "raised" =>
                /\ SomeTaskFailed
                /\ \E i \in Indices : foutcome[i].kind = "err" /\ foutcome[i].exc = exc
                /\ AllTasksFinished
          /\ pc \in {"returned", "raised"} => (pc = "raised" <=> SomeTaskFailed))
    /\ <>(pc \in {"returned", "raised"})

C35_Witness ==
    /\ pc = "raised"
    /\ total = MaxRows
    /\ workers = MaxWorkers
    /\ timeouts = MaxTimeouts
    /\ completed = 1
    /\ pending # {}
    /\ \E i, j \in Indices : foutcome[i].kind = "err" /\ foutcome[j].kind = "ok" /\ i # j

====
